---- MODULE Spec2Model ----
(***************************************************************************)
(* A model of the Neynar client of vocdoni/farcaster-go                    *)
(* (src/neynar/neynar.go): the rate-limited request helper                 *)
(* (NeynarAPI.request), the API methods that call it, the webhook handlers *)
(* and the mention queue (NeynarAPI.newCasts) drained by LastMentions.     *)
(***************************************************************************)
EXTENDS Integers, Sequences, FiniteSets, TLC

(***************************************************************************)
(* Program constants (neynar.go, const block).                             *)
(***************************************************************************)
maxConcurrentRequests == 2
maxRetries == 12
\* baseDelay = 1 * time.Second, in milliseconds
baseDelay == 1000
\* defaultRequestTimeout = 10 * time.Second, in seconds
defaultRequestTimeout == 10
\* util.RandomInt(0, 2000): the exclusive upper end of the jitter, in ms
jitterMax == 2000

(***************************************************************************)
(* Bounds of the model.                                                    *)
(***************************************************************************)
\* goroutines that call the API concurrently
NumCallers == 3
\* the longest cast text parseCastData is tried on, the examples aside
MaxTextLen == 3
\* goroutines that handle webhook deliveries concurrently
NumHooks == 2
\* goroutines that call LastMentions concurrently
NumPollers == 2
\* cast timestamps are 1..MaxTs seconds, watermarks 0..MaxTs
MaxTs == 2
\* webhook deliveries in one behaviour
MaxDeliveries == 2
\* HTTP 429 answers the server gives in all in the concurrency specification
Max429 == 1

Callers == 1..NumCallers
Clients == {"c1", "c2"}
NoClient == "none"

\* the API methods modelled: Reply passes timeout 0, the others
\* defaultRequestTimeout
Methods == {"Reply", "Publish", "Cast"}

\* HTTP status codes the server answers with; 0 stands for a transport error
\* (http.DefaultClient.Do returned err != nil)
StatusTooManyRequests == 429
StatusOK == 200
StatusNotFound == 404
StatusInternalServerError == 500
TransportError == 0
Statuses == {StatusOK, StatusTooManyRequests, StatusNotFound, StatusInternalServerError}

\* response bodies; bodyOk = FALSE is a body io.ReadAll fails on
Bodies == {"b1", "b2"}
NoBody == ""
Answers ==
    [status : Statuses, body : Bodies, bodyOk : BOOLEAN]
        \cup {[status |-> TransportError, body |-> NoBody, bodyOk |-> FALSE]}
NoAnswer == [status |-> -1, body |-> NoBody, bodyOk |-> FALSE]

\* the errors request and its callers return (their messages)
ErrNone == "nil"
ErrCreate == "error creating request"
ErrTransport == "error downloading json: transport error"
ErrStatus == "error downloading json: status"
ErrReadBody == "error reading response body"
ErrRetryLimit == "error downloading json: exceeded retry limit"
ErrUserNotSet == "farcaster user not set"
ErrTooLong == "content is too long"
NotReturned == [err |-> "pending", body |-> NoBody]
Returned(e, b) == [err |-> e, body |-> b]

\* the fid of the bot user; 0 is "not set"
BotFid == 237
NoFid == 0

VARIABLES
    \* ---- NeynarAPI fields, per client
    fid,            \* n.fid
    reqSemaphore,   \* n.reqSemaphore: the number of elements in the channel
    \* ---- one goroutine per caller, inside an API method / request
    pc,             \* where the caller is
    method,         \* the API method called
    client,         \* the NeynarAPI the method is called on
    url,            \* request's url argument: "ok", or "bad" when it does not parse
    timeout,        \* request's timeout argument, in seconds
    callerDone,     \* the caller's ctx is done (cancelled)
    attempt,        \* the loop variable of request
    expired,        \* the deadline of the attempt's ctx (context.WithTimeout) has passed
    res,            \* what http.DefaultClient.Do returned last in this call
    delay,          \* the duration of the current time.Sleep, in ms
    ret,            \* what the method returned
    \* ---- history of the current call
    calls,          \* http.DefaultClient.Do invocations
    n429,           \* 429 answers received
    slept           \* time.Sleep invocations

reqVars == <<fid, reqSemaphore, pc, method, client, url, timeout, callerDone, attempt,
             expired, res, delay, ret, calls, n429, slept>>

VARIABLES
    \* ---- NeynarAPI fields of the client the webhook is attached to
    username,       \* n.username, per client
    newCasts,       \* n.newCasts: a map from timestamp to message
    newCastsMtx,    \* n.newCastsMtx: Unlocked or the goroutine holding it
    \* ---- parseCastData applied to one input
    castData,       \* the *castWebhookData passed
    parsed          \* what parseCastData returned

VARIABLES
    \* ---- one goroutine per webhook delivery (WebhookHttpHandler)
    hpc,            \* where the delivery is
    hreq,           \* the request: its body, its X-Neynar-Signature header, verified
    hmsg,           \* message, as parseCastData returned it
    hts,            \* notificationTimestamp
    hret,           \* what the attached handler returned and the HTTP status written
    \* ---- one goroutine per poller (LastMentions)
    dpc,            \* where the poller is
    dts,            \* the timestamp argument (the watermark)
    messages,       \* the local messages
    lastTimestamp,  \* the local lastTimestamp
    dret,           \* what LastMentions returned
    \* ---- history
    delivered,      \* the number of webhook deliveries so far
    fate,           \* what became of each cast, by hash
    recorded        \* per poller: the casts inserted since its current call began

queueVars == <<username, newCasts, newCastsMtx>>
parseVars == <<castData, parsed>>
hookVars == <<hpc, hreq, hmsg, hts, hret>>
pollVars == <<dpc, dts, messages, lastTimestamp, dret>>
histVars == <<delivered, fate, recorded>>

VARIABLES
    \* ---- one goroutine per caller, inside ChannelExists
    cpc,            \* where the caller of ChannelExists is
    channelID,      \* the channelID argument
    channel,        \* what n.Channel returned to ChannelExists
    exists          \* what ChannelExists returned

chanVars == <<cpc, channelID, channel, exists>>

VARIABLES
    signerUUID,     \* n.signerUUID, per client
    \* ---- one goroutine per caller, inside SetFarcasterUser
    upc,            \* where the caller of SetFarcasterUser is
    uarg,           \* the client it is called on and its arguments fid, signer
    sret            \* the error SetFarcasterUser returned

userVars == <<signerUUID, upc, uarg, sret>>

vars == <<reqVars, queueVars, parseVars, hookVars, pollVars, histVars, chanVars, userVars>>

(***************************************************************************)
(* Strings are sequences of characters.                                    *)
(***************************************************************************)
\* strings.HasPrefix
HasPrefix(str, prefix) ==
    /\ Len(prefix) <= Len(str)
    /\ SubSeq(str, 1, Len(prefix)) = prefix

\* strings.TrimPrefix
TrimPrefix(str, prefix) ==
    IF HasPrefix(str, prefix) THEN SubSeq(str, Len(prefix) + 1, Len(str)) ELSE str

\* the white space strings.TrimSpace removes
IsSpace(ch) == ch \in {" ", "\t", "\n", "\r"}

RECURSIVE TrimLeft(_)
TrimLeft(str) ==
    IF str # <<>> /\ IsSpace(Head(str)) THEN TrimLeft(Tail(str)) ELSE str

RECURSIVE TrimRight(_)
TrimRight(str) ==
    IF str # <<>> /\ IsSpace(str[Len(str)])
        THEN TrimRight(SubSeq(str, 1, Len(str) - 1))
        ELSE str

\* strings.TrimSpace
TrimSpace(str) == TrimRight(TrimLeft(str))

\* the texts of the examples
AtBotHello == <<"@", "b", "o", "t", " ", "h", "e", "l", "l", "o">>
RandomText == <<"r", "a", "n", "d", "o", "m", " ", "t", "e", "x", "t">>
Hello == <<"h", "e", "l", "l", "o">>
Bot == <<"b", "o", "t">>

(***************************************************************************)
(* parseCastData                                                           *)
(***************************************************************************)
neynarCastType == "cast"
neynarCastCreatedType == "cast.created"

NoParent == "nil"
NoMessage == "nil"
ErrInvalidObject == "invalid object type"

\* mentionNeedle := fmt.Sprintf("@%s", n.username)
mentionNeedle(name) == <<"@">> \o name

\* isMention := !strings.HasPrefix(data.Text, mentionNeedle)
isMention(text, name) == ~HasPrefix(text, mentionNeedle(name))

\* data.Text after the "remove the username of the bot" step
ContentOf(text, name) ==
    IF isMention(text, name)
        THEN TrimSpace(TrimPrefix(text, mentionNeedle(name)))
        ELSE text

\* parseCastData(data) on a client whose username is name
parseCastData(data, name) ==
    IF data.Object # neynarCastType
        THEN [err |-> ErrInvalidObject, message |-> NoMessage]
        ELSE [err |-> ErrNone,
              message |-> [IsMention |-> isMention(data.Text, name),
                           Author |-> data.Author,
                           Content |-> ContentOf(data.Text, name),
                           Hash |-> data.Hash,
                           Parent |-> IF data.ParentAuthor # NoParent
                                        THEN [FID |-> data.ParentAuthor,
                                              Hash |-> data.ParentHash]
                                        ELSE NoParent,
                           Embeds |-> data.Embeds]]

(***************************************************************************)
(* NewNeynarAPI: an empty semaphore of capacity maxConcurrentRequests per  *)
(* client.                                                                 *)
(***************************************************************************)
NewNeynarAPI == [c \in Clients |-> 0]

\* the zero value of sync.Mutex
Unlocked == <<"free", 0>>

\* make(map[uint64]*hub.APIMessage)
EmptyMap == [t \in {} |-> NoMessage]

Hooks == 1..NumHooks
Pollers == 1..NumPollers
Hashes == 1..MaxDeliveries
NoRequest == [body |-> <<>>, sig |-> <<>>, readOk |-> TRUE, verified |-> FALSE]
HookPending == [err |-> "pending", status |-> 0]
PollPending == [messages |-> <<>>, lastTimestamp |-> 0, err |-> "pending"]

InitHooks ==
    /\ hpc = [h \in Hooks |-> "idle"]
    /\ hreq = [h \in Hooks |-> NoRequest]
    /\ hmsg = [h \in Hooks |-> NoMessage]
    /\ hts = [h \in Hooks |-> 0]
    /\ hret = [h \in Hooks |-> HookPending]
    /\ delivered = 0
    /\ fate = [e \in Hashes |-> "none"]

InitPollers ==
    /\ dpc = [d \in Pollers |-> "idle"]
    /\ dts = [d \in Pollers |-> 0]
    /\ messages = [d \in Pollers |-> <<>>]
    /\ lastTimestamp = [d \in Pollers |-> 0]
    /\ dret = [d \in Pollers |-> PollPending]
    /\ recorded = [d \in Pollers |-> {}]

\* NewNeynarAPI: an empty map, an unlocked mutex, no username
InitQueue ==
    /\ username = [c \in Clients |-> <<>>]
    /\ newCasts = EmptyMap
    /\ newCastsMtx = Unlocked

NoCastData == "nil"
NotParsed == [err |-> "pending", message |-> NoMessage]

InitNoParse ==
    /\ castData = NoCastData
    /\ parsed = NotParsed

\* channel ids, as bytes: "" (none), "a", "404", and "\n", with which the
\* url does not parse
NoChannelID == <<>>
ChannelIDs == {NoChannelID, <<97>>, <<52, 48, 52>>, <<10>>}

\* a *hub.Channel: nil, or the channel the answer described
NilChannel == "nil"
ChannelData == "channel"
ChannelPending == [data |-> NilChannel, err |-> "pending"]
ExistsPending == [ok |-> FALSE, err |-> "pending"]

InitCallers ==
    /\ signerUUID = [c \in Clients |-> ""]
    /\ upc = [g \in Callers |-> "idle"]
    /\ uarg = [g \in Callers |-> [client |-> NoClient, fid |-> NoFid, signer |-> ""]]
    /\ sret = [g \in Callers |-> "pending"]
    /\ cpc = [g \in Callers |-> "idle"]
    /\ channelID = [g \in Callers |-> NoChannelID]
    /\ channel = [g \in Callers |-> ChannelPending]
    /\ exists = [g \in Callers |-> ExistsPending]
    /\ pc = [g \in Callers |-> "idle"]
    /\ method = [g \in Callers |-> "none"]
    /\ client = [g \in Callers |-> NoClient]
    /\ url = [g \in Callers |-> "ok"]
    /\ timeout = [g \in Callers |-> 0]
    /\ callerDone = [g \in Callers |-> FALSE]
    /\ attempt = [g \in Callers |-> 0]
    /\ expired = [g \in Callers |-> FALSE]
    /\ res = [g \in Callers |-> NoAnswer]
    /\ delay = [g \in Callers |-> 0]
    /\ ret = [g \in Callers |-> NotReturned]
    /\ calls = [g \in Callers |-> 0]
    /\ n429 = [g \in Callers |-> 0]
    /\ slept = [g \in Callers |-> 0]

\* request's timeout argument as each method passes it
TimeoutOf(m) == IF m = "Reply" THEN 0 ELSE defaultRequestTimeout

\* mutant: Reply without the guard
NeedsUserPublishOnly(m) == m = "Publish"

\* the "farcaster user not set" guard of Publish and Reply
NeedsUser(m) == m \in {"Reply", "Publish"}

(***************************************************************************)
(* A caller invokes method m on client c; tooLong says whether the content *)
(* exceeds hub.MaxCastBytes, u whether the url the method builds parses.   *)
(* The guards of Publish and Reply return before request is called.        *)
(***************************************************************************)
Call(g, m, c, tooLong, u) ==
    /\ pc[g] \in {"idle", "done"}
    /\ url' = [url EXCEPT ![g] = u]
    /\ method' = [method EXCEPT ![g] = m]
    /\ client' = [client EXCEPT ![g] = c]
    /\ timeout' = [timeout EXCEPT ![g] = TimeoutOf(m)]
    /\ callerDone' = [callerDone EXCEPT ![g] = FALSE]
    /\ attempt' = [attempt EXCEPT ![g] = 0]
    /\ expired' = [expired EXCEPT ![g] = FALSE]
    /\ res' = [res EXCEPT ![g] = NoAnswer]
    /\ delay' = [delay EXCEPT ![g] = 0]
    /\ calls' = [calls EXCEPT ![g] = 0]
    /\ n429' = [n429 EXCEPT ![g] = 0]
    /\ slept' = [slept EXCEPT ![g] = 0]
    /\ IF NeedsUser(m) /\ fid[c] = NoFid
         THEN /\ pc' = [pc EXCEPT ![g] = "done"]
              /\ ret' = [ret EXCEPT ![g] = Returned(ErrUserNotSet, NoBody)]
         ELSE IF NeedsUser(m) /\ tooLong
         THEN /\ pc' = [pc EXCEPT ![g] = "done"]
              /\ ret' = [ret EXCEPT ![g] = Returned(ErrTooLong, NoBody)]
         ELSE /\ pc' = [pc EXCEPT ![g] = "loop"]
              /\ ret' = [ret EXCEPT ![g] = NotReturned]
    /\ UNCHANGED <<fid, reqSemaphore>>

(***************************************************************************)
(* request, one action per step of its loop.                               *)
(***************************************************************************)
\* context.WithTimeout(ctx, timeout): the deadline is now + timeout, and a
\* deadline that is not in the future cancels the context at once
WithTimeout(t) == t <= 0

\* the attempt's ctx is done when its deadline passed or its parent is done
CtxDone(g) == expired[g] \/ callerDone[g]

\* mutants of the loop condition: one attempt short, one attempt long
LoopConditionShort(a) == a < maxRetries - 1
LoopConditionLong(a) == a <= maxRetries

\* for attempt := 0; attempt < maxRetries; attempt++
LoopCondition(a) == a < maxRetries

\* The loop head and the attempt's setup: the ctx and the http.Request,
\* which http.NewRequestWithContext rejects for a url that does not parse.
LoopHead(g) ==
    /\ pc[g] = "loop"
    /\ IF ~LoopCondition(attempt[g])
         THEN /\ pc' = [pc EXCEPT ![g] = "done"]
              /\ ret' = [ret EXCEPT ![g] = Returned(ErrRetryLimit, NoBody)]
              /\ UNCHANGED expired
         ELSE /\ expired' = [expired EXCEPT ![g] = WithTimeout(timeout[g])]
              /\ IF url[g] = "ok"
                   THEN /\ pc' = [pc EXCEPT ![g] = "acquire"]
                        /\ UNCHANGED ret
                   ELSE /\ pc' = [pc EXCEPT ![g] = "done"]
                        /\ ret' = [ret EXCEPT ![g] = Returned(ErrCreate, NoBody)]
    /\ UNCHANGED <<fid, reqSemaphore, method, client, url, timeout, callerDone, attempt,
                   res, delay, calls, n429, slept>>

\* mutant: a channel with room for one element more
SemaphoreFullOffByOne(c) == reqSemaphore[c] > maxConcurrentRequests

\* a send on the buffered channel blocks while the channel is full
SemaphoreFull(c) == reqSemaphore[c] >= maxConcurrentRequests

\* mutant: a send in a select with ctx.Done(), which gives the wait up when
\* the attempt's ctx is done
AcquireInterruptible(g) ==
    /\ pc[g] = "acquire"
    /\ IF CtxDone(g)
         THEN /\ pc' = [pc EXCEPT ![g] = "done"]
              /\ ret' = [ret EXCEPT ![g] = Returned(ErrTransport, NoBody)]
              /\ UNCHANGED <<reqSemaphore, calls>>
         ELSE /\ ~SemaphoreFull(client[g])
              /\ reqSemaphore' = [reqSemaphore EXCEPT ![client[g]] = @ + 1]
              /\ pc' = [pc EXCEPT ![g] = "do"]
              /\ calls' = [calls EXCEPT ![g] = @ + 1]
              /\ UNCHANGED ret
    /\ UNCHANGED <<fid, method, client, url, timeout, callerDone, attempt, expired, res,
                   delay, n429, slept>>

\* n.reqSemaphore <- struct{}{}, then http.DefaultClient.Do is entered
Acquire(g) ==
    /\ pc[g] = "acquire"
    /\ ~SemaphoreFull(client[g])
    /\ reqSemaphore' = [reqSemaphore EXCEPT ![client[g]] = @ + 1]
    /\ pc' = [pc EXCEPT ![g] = "do"]
    /\ calls' = [calls EXCEPT ![g] = @ + 1]
    /\ UNCHANGED <<fid, method, client, url, timeout, callerDone, attempt, expired, res,
                   delay, ret, n429, slept>>

\* what Do may return: only an error once the request's ctx is done
MayAnswer(g, ans) == CtxDone(g) => ans.status = TransportError

\* res, err := http.DefaultClient.Do(req) returns
DoReturn(g, ans) ==
    /\ pc[g] = "do"
    /\ MayAnswer(g, ans)
    /\ res' = [res EXCEPT ![g] = ans]
    /\ n429' = [n429 EXCEPT ![g] = IF ans.status = StatusTooManyRequests THEN @ + 1 ELSE @]
    /\ pc' = [pc EXCEPT ![g] = "release"]
    /\ UNCHANGED <<fid, reqSemaphore, method, client, url, timeout, callerDone, attempt,
                   expired, delay, ret, calls, slept>>

\* mutant: the receive placed after the err != nil return, so that a call
\* that failed keeps its permit
ReleaseAfterErrCheck(g) ==
    /\ pc[g] = "release"
    /\ reqSemaphore[client[g]] > 0
    /\ reqSemaphore' = [reqSemaphore EXCEPT ![client[g]] =
                          IF res[g].status = TransportError THEN @ ELSE @ - 1]
    /\ pc' = [pc EXCEPT ![g] = "classify"]
    /\ UNCHANGED <<fid, method, client, url, timeout, callerDone, attempt, expired, res,
                   delay, ret, calls, n429, slept>>

\* <-n.reqSemaphore
Release(g) ==
    /\ pc[g] = "release"
    /\ reqSemaphore[client[g]] > 0
    /\ reqSemaphore' = [reqSemaphore EXCEPT ![client[g]] = @ - 1]
    /\ pc' = [pc EXCEPT ![g] = "classify"]
    /\ UNCHANGED <<fid, method, client, url, timeout, callerDone, attempt, expired, res,
                   delay, ret, calls, n429, slept>>

\* mutant: server errors are retried as well
RetryableServerErrors(status) ==
    status = StatusTooManyRequests \/ status >= StatusInternalServerError

\* the statuses after which the loop goes on to a further attempt
Retryable(status) == status = StatusTooManyRequests

\* mutant: a delay that doubles with every attempt
BackoffDoubling(a, jitter) == baseDelay * (2 ^ a) + jitter

\* time.Duration(attempt+1)*baseDelay + time.Duration(jitter)*time.Millisecond
Backoff(a, jitter) == (a + 1) * baseDelay + jitter

\* if err != nil ... else if 429 ... else if != 200 ... else (lines 567-575)
Classify(g, jitter) ==
    /\ pc[g] = "classify"
    /\ IF res[g].status = TransportError
         THEN /\ pc' = [pc EXCEPT ![g] = "done"]
              /\ ret' = [ret EXCEPT ![g] = Returned(ErrTransport, NoBody)]
              /\ UNCHANGED <<delay, slept>>
         ELSE IF Retryable(res[g].status)
         THEN /\ pc' = [pc EXCEPT ![g] = "sleep"]
              /\ delay' = [delay EXCEPT ![g] = Backoff(attempt[g], jitter)]
              /\ slept' = [slept EXCEPT ![g] = @ + 1]
              /\ UNCHANGED ret
         ELSE IF res[g].status # StatusOK
         THEN /\ pc' = [pc EXCEPT ![g] = "done"]
              /\ ret' = [ret EXCEPT ![g] = Returned(ErrStatus, NoBody)]
              /\ UNCHANGED <<delay, slept>>
         ELSE /\ pc' = [pc EXCEPT ![g] = "read"]
              /\ UNCHANGED <<ret, delay, slept>>
    /\ UNCHANGED <<fid, reqSemaphore, method, client, url, timeout, callerDone, attempt,
                   expired, res, calls, n429>>

\* time.Sleep returns; the loop's attempt++
Wake(g) ==
    /\ pc[g] = "sleep"
    /\ attempt' = [attempt EXCEPT ![g] = @ + 1]
    /\ delay' = [delay EXCEPT ![g] = 0]
    /\ pc' = [pc EXCEPT ![g] = "loop"]
    /\ UNCHANGED <<fid, reqSemaphore, method, client, url, timeout, callerDone, expired,
                   res, ret, calls, n429, slept>>

\* respBody, err := io.ReadAll(res.Body) and the return
ReadBody(g) ==
    /\ pc[g] = "read"
    /\ pc' = [pc EXCEPT ![g] = "done"]
    /\ ret' = [ret EXCEPT ![g] =
                 IF res[g].bodyOk THEN Returned(ErrNone, res[g].body)
                                  ELSE Returned(ErrReadBody, NoBody)]
    /\ UNCHANGED <<fid, reqSemaphore, method, client, url, timeout, callerDone, attempt,
                   expired, res, delay, calls, n429, slept>>

\* the deadline of the attempt's ctx passes while the caller waits for a
\* permit or is inside Do (elsewhere it changes nothing the loop reads)
DeadlineFires(g) ==
    /\ pc[g] \in {"acquire", "do"}
    /\ ~expired[g]
    /\ expired' = [expired EXCEPT ![g] = TRUE]
    /\ UNCHANGED <<fid, reqSemaphore, pc, method, client, url, timeout, callerDone, attempt,
                   res, delay, ret, calls, n429, slept>>

\* the caller's ctx is cancelled while the call runs
CallerCancel(g) ==
    /\ pc[g] \in {"loop", "acquire", "do"}
    /\ ~callerDone[g]
    /\ callerDone' = [callerDone EXCEPT ![g] = TRUE]
    /\ UNCHANGED <<fid, reqSemaphore, pc, method, client, url, timeout, attempt, expired,
                   res, delay, ret, calls, n429, slept>>

\* the jitters tried: the ends of util.RandomInt(0, 2000)'s range
Jitters == {0, jitterMax - 1}

(***************************************************************************)
(* SpecRetry: one caller, every method, every answer of the server, every  *)
(* attempt of the retry loop.                                              *)
(***************************************************************************)
InitRetry ==
    /\ fid \in [Clients -> {NoFid, BotFid}]
    /\ reqSemaphore = NewNeynarAPI
    /\ InitCallers
    /\ InitQueue
    /\ InitNoParse
    /\ InitHooks
    /\ InitPollers

NextRetry ==
    /\ UNCHANGED <<queueVars, parseVars, hookVars, pollVars, histVars, chanVars, userVars>>
    /\ \E g \in {1} :
        \/ \E m \in Methods, c \in Clients, tooLong \in BOOLEAN, u \in {"ok", "bad"} :
              Call(g, m, c, tooLong, u)
        \/ LoopHead(g)
        \/ Acquire(g)
        \/ \E ans \in Answers : DoReturn(g, ans)
        \/ Release(g)
        \/ \E j \in Jitters : Classify(g, j)
        \/ Wake(g)
        \/ ReadBody(g)
        \/ DeadlineFires(g)
        \/ CallerCancel(g)

SpecRetry == InitRetry /\ [][NextRetry]_vars

\* The steps of request itself.  A runnable goroutine is scheduled, time.Sleep
\* ends, Do returns (with an answer or an error) and, with one caller, the
\* semaphore has room: the step that is enabled is eventually taken.
RequestStep(g) ==
    \/ LoopHead(g)
    \/ Acquire(g)
    \/ \E ans \in Answers : DoReturn(g, ans)
    \/ Release(g)
    \/ \E j \in Jitters : Classify(g, j)
    \/ Wake(g)
    \/ ReadBody(g)

FairSpecRetry == SpecRetry /\ WF_reqVars(RequestStep(1))

(***************************************************************************)
(* SpecSem: NumCallers goroutines call request concurrently on one client; *)
(* the server answers at most Max429 attempts in all with 429.             *)
(***************************************************************************)
RECURSIVE Throttled(_)
Throttled(n) == IF n = 0 THEN 0 ELSE n429[n] + Throttled(n - 1)

SemAnswers == {a \in Answers : a.body \in {NoBody, "b1"} /\ (a.status = StatusOK <=> a.bodyOk)
                               /\ a.status # StatusNotFound}

InitSem ==
    /\ fid = [c \in Clients |-> BotFid]
    /\ reqSemaphore = NewNeynarAPI
    /\ InitCallers
    /\ InitQueue
    /\ InitNoParse
    /\ InitHooks
    /\ InitPollers

NextSem ==
    /\ UNCHANGED <<queueVars, parseVars, hookVars, pollVars, histVars, chanVars, userVars>>
    /\ \E g \in Callers :
        \/ pc[g] = "idle" /\ Call(g, "Cast", "c1", FALSE, "ok")
        \/ LoopHead(g)
        \/ Acquire(g)
        \/ \E ans \in SemAnswers :
              /\ ans.status = StatusTooManyRequests => Throttled(NumCallers) < Max429
              /\ DoReturn(g, ans)
        \/ Release(g)
        \/ Classify(g, 0)
        \/ Wake(g)
        \/ ReadBody(g)
        \/ DeadlineFires(g)

SpecSem == InitSem /\ [][NextSem]_vars

(***************************************************************************)
(* SpecClients: NumCallers goroutines call request concurrently, each on   *)
(* one of the two clients, which separate NewNeynarAPI calls made; the     *)
(* server answers every attempt with 200.                                  *)
(***************************************************************************)
OkAnswer == [status |-> StatusOK, body |-> "b1", bodyOk |-> TRUE]

NextClients ==
    /\ UNCHANGED <<queueVars, parseVars, hookVars, pollVars, histVars, chanVars, userVars>>
    /\ \E g \in Callers :
        \/ \E c \in Clients : pc[g] = "idle" /\ Call(g, "Cast", c, FALSE, "ok")
        \/ LoopHead(g)
        \/ Acquire(g)
        \/ DoReturn(g, OkAnswer)
        \/ Release(g)
        \/ Classify(g, 0)
        \/ ReadBody(g)

SpecClients == InitSem /\ [][NextClients]_vars

(***************************************************************************)
(* FairSpecContend: NumCallers goroutines call request once each on one    *)
(* client; deadlines pass and callers cancel while requests wait for a     *)
(* permit or are inside Do.  A runnable goroutine is scheduled, Do returns *)
(* (at once with an error when its ctx is done) and time.Sleep ends.       *)
(***************************************************************************)
ContendStep(g) ==
    \/ LoopHead(g)
    \/ Acquire(g)
    \/ \E ans \in SemAnswers :
          /\ ans.status = StatusTooManyRequests => Throttled(NumCallers) < Max429
          /\ DoReturn(g, ans)
    \/ Release(g)
    \/ Classify(g, 0)
    \/ Wake(g)
    \/ ReadBody(g)

NextContend ==
    /\ UNCHANGED <<queueVars, parseVars, hookVars, pollVars, histVars, chanVars, userVars>>
    /\ \E g \in Callers :
        \/ pc[g] = "idle" /\ Call(g, "Cast", "c1", FALSE, "ok")
        \/ ContendStep(g)
        \/ DeadlineFires(g)
        \/ CallerCancel(g)

FairSpecContend ==
    /\ InitSem
    /\ [][NextContend]_vars
    /\ \A g \in Callers : WF_reqVars(ContendStep(g))

(***************************************************************************)
(* Channel and ChannelExists.                                              *)
(***************************************************************************)
ErrChannelNotFound == "channel not found"
ErrGetChannel == "error getting channel from API"
ErrDecodeChannel == "error decoding channel information"
ErrNoChannelData == "no data for this channel"
ErrCheckChannel == "error checking channel existence"

\* the bodies of the server's answers: a channel object, an object without
\* one, and bytes that are not JSON
ChannelBodies == {"{channel: {...}}", "{}", "<html>"}

ChannelAnswers ==
    [status : Statuses, body : ChannelBodies, bodyOk : BOOLEAN]
        \cup {[status |-> TransportError, body |-> NoBody, bodyOk |-> FALSE]}

\* the url fmt.Sprintf(neynarChannelDataByID, channelID) gives parses unless
\* the id holds a control character
UrlOf(id) == IF \E i \in 1..Len(id) : id[i] < 32 THEN "bad" ELSE "ok"

\* strings.Contains, on byte sequences
Contains(s, substr) ==
    \E i \in 1..(Len(s) - Len(substr) + 1) : SubSeq(s, i, i + Len(substr) - 1) = substr

\* the three digits res.Status begins with
StatusText(status) ==
    <<48 + (status \div 100), 48 + ((status \div 10) % 10), 48 + (status % 10)>>

\* The part of err.Error() that varies, for the error request returned: the
\* status line after a status other than 200, the url (which ends with the
\* channel id) in the errors of http.NewRequestWithContext and of Do.
ErrorText(g) ==
    IF ret[g].err = ErrStatus THEN StatusText(res[g].status)
    ELSE IF ret[g].err \in {ErrTransport, ErrCreate} THEN channelID[g]
    ELSE <<>>

\* Channel, from the return of request on
ChannelAfterRequest(g) ==
    IF ret[g].err # ErrNone
      THEN IF Contains(ErrorText(g), StatusText(StatusNotFound))
             THEN [data |-> NilChannel, err |-> ErrChannelNotFound]
             ELSE [data |-> NilChannel, err |-> ErrGetChannel]
    ELSE IF ret[g].body = "<html>"
      THEN [data |-> NilChannel, err |-> ErrDecodeChannel]
    ELSE IF ret[g].body = "{}"
      THEN [data |-> NilChannel, err |-> ErrNoChannelData]
    ELSE [data |-> ChannelData, err |-> ErrNone]

\* ChannelExists, from the return of Channel on
ExistsAfterChannel(ch) ==
    IF ch.err # ErrNone
      THEN IF ch.err = ErrChannelNotFound
             THEN [ok |-> FALSE, err |-> ErrNone]
             ELSE [ok |-> FALSE, err |-> ErrCheckChannel]
      ELSE [ok |-> TRUE, err |-> ErrNone]

\* ChannelExists(ctx, id) is called on client c.  Channel returns nil, nil
\* for the empty id without a request, and ChannelExists returns on that.
ChannelExists(g, c, id) ==
    /\ cpc[g] \in {"idle", "done"}
    /\ channelID' = [channelID EXCEPT ![g] = id]
    /\ IF id = NoChannelID
         THEN /\ channel' = [channel EXCEPT ![g] = [data |-> NilChannel, err |-> ErrNone]]
              /\ exists' = [exists EXCEPT ![g] = ExistsAfterChannel(channel'[g])]
              /\ cpc' = [cpc EXCEPT ![g] = "done"]
              /\ UNCHANGED reqVars
         ELSE /\ Call(g, "Channel", c, FALSE, UrlOf(id))
              /\ channel' = [channel EXCEPT ![g] = ChannelPending]
              /\ exists' = [exists EXCEPT ![g] = ExistsPending]
              /\ cpc' = [cpc EXCEPT ![g] = "request"]

\* request has returned: the rest of Channel, then the rest of ChannelExists
ChannelReturn(g) ==
    /\ cpc[g] = "request"
    /\ pc[g] = "done"
    /\ channel' = [channel EXCEPT ![g] = ChannelAfterRequest(g)]
    /\ exists' = [exists EXCEPT ![g] = ExistsAfterChannel(channel'[g])]
    /\ cpc' = [cpc EXCEPT ![g] = "done"]
    /\ UNCHANGED <<channelID, reqVars>>

(***************************************************************************)
(* SpecChannel: one caller calls ChannelExists with every id of ChannelIDs *)
(* and the server gives every answer of ChannelAnswers.                    *)
(***************************************************************************)
NextChannel ==
    /\ UNCHANGED <<queueVars, parseVars, hookVars, pollVars, histVars, userVars>>
    /\ \E g \in {1} :
        \/ \E c \in Clients, id \in ChannelIDs : ChannelExists(g, c, id)
        \/ ChannelReturn(g)
        \/ /\ UNCHANGED chanVars
           /\ \/ LoopHead(g)
              \/ Acquire(g)
              \/ \E ans \in ChannelAnswers : DoReturn(g, ans)
              \/ Release(g)
              \/ \E j \in Jitters : Classify(g, j)
              \/ Wake(g)
              \/ ReadBody(g)
              \/ DeadlineFires(g)
              \/ CallerCancel(g)

SpecChannel == InitSem /\ [][NextChannel]_vars

(***************************************************************************)
(* Webhook deliveries.  A body is a sequence of bytes                      *)
(*     <<type, object, text, seconds, milliseconds, hash>>                 *)
(* that json.Unmarshal decodes; a sequence of another length is not JSON.  *)
(***************************************************************************)
TypeNames == <<neynarCastCreatedType, "cast.deleted">>
ObjectNames == <<neynarCastType, "user">>
CastTexts == <<AtBotHello, RandomText>>
\* the byte that says the body has no "data" field
NoDataByte == 0
\* a milliseconds byte of a timestamp that does not match timeLayout
BadLayoutByte == 255
ErrUnmarshal == "error unmarshalling request body"
ErrParseCast == "error parsing cast data"
ErrParseTime == "error parsing timestamp"
ErrPanic == "panic: nil pointer dereference"
ErrNotCalled == "handler not called"

\* json.Unmarshal(body, castWebhookReq)
Unmarshal(body) ==
    IF Len(body) # 6
        THEN [err |-> ErrUnmarshal, Type |-> "", HasData |-> FALSE, Data |-> NoCastData]
        ELSE [err |-> ErrNone,
              HasData |-> body[2] # NoDataByte,
              Type |-> TypeNames[body[1]],
              Data |-> IF body[2] = NoDataByte
                         THEN NoCastData
                         ELSE [Object |-> ObjectNames[body[2]],
                               Text |-> CastTexts[body[3]],
                               Author |-> BotFid + 1,
                               Hash |-> body[6],
                               Timestamp |-> [sec |-> body[4], ms |-> body[5]],
                               ParentAuthor |-> NoParent,
                               ParentHash |-> "",
                               Embeds |-> <<>>]]

\* time.Parse(timeLayout, data.Timestamp) and uint64(parsedTimestamp.Unix()):
\* the layout has three digits of milliseconds, Unix() drops them
ParseTime(t) ==
    IF t.ms \notin 0..999
        THEN [err |-> ErrParseTime, unix |-> 0]
        ELSE [err |-> ErrNone, unix |-> t.sec]

(***************************************************************************)
(* verifyRequest.  The MAC is a small keyed hash of two bytes in place of  *)
(* HMAC-SHA512; the hexadecimal encoding and the comparison are the code's.*)
(***************************************************************************)
RECURSIVE Mix(_, _)
Mix(acc, bytes) ==
    IF bytes = <<>> THEN acc ELSE Mix((acc * 31 + Head(bytes) + 1) % 256, Tail(bytes))

\* hmac.New(sha512.New, secret); hmac.Write(body); hmac.Sum(nil)
Hmac(secret, body) == <<Mix(7, secret \o body), Mix(13, body \o secret)>>

HexDigits == <<"0", "1", "2", "3", "4", "5", "6", "7",
               "8", "9", "a", "b", "c", "d", "e", "f">>

\* hex.EncodeToString
RECURSIVE HexEncode(_)
HexEncode(bytes) ==
    IF bytes = <<>>
        THEN <<>>
        ELSE <<HexDigits[(Head(bytes) \div 16) + 1], HexDigits[(Head(bytes) % 16) + 1]>>
                \o HexEncode(Tail(bytes))

\* mutant: the signature compared as a prefix of the computed one
verifyRequestPrefix(secret, signature, body) ==
    [verified |-> HasPrefix(HexEncode(Hmac(secret, body)), signature), err |-> ErrNone]

\* verifyRequest(secret, signature, body): (bool, error); the error is always nil
verifyRequest(secret, signature, body) ==
    [verified |-> signature = HexEncode(Hmac(secret, body)), err |-> ErrNone]

\* the secret WebhookHttpHandler was built with, and another one
webhookSecret == <<115>>
OtherSecret == <<116>>

GoodSig(body) == HexEncode(Hmac(webhookSecret, body))
\* a signature with its first character changed
FlipFirst(sig) == <<IF sig[1] = "0" THEN "1" ELSE "0">> \o Tail(sig)
Signatures(body) ==
    {GoodSig(body), FlipFirst(GoodSig(body)), HexEncode(Hmac(OtherSecret, body)), <<>>}

\* a signature with its character at position i changed
FlipAt(sig, i) == [sig EXCEPT ![i] = IF @ = "0" THEN "1" ELSE "0"]

\* a letter of a hexadecimal digit in upper case
UpperDigit(ch) ==
    CASE ch = "a" -> "A" [] ch = "b" -> "B" [] ch = "c" -> "C"
      [] ch = "d" -> "D" [] ch = "e" -> "E" [] ch = "f" -> "F" [] OTHER -> ch

\* the signature headers tried on verifyRequest: the computed one; that one
\* with one character changed, in upper case, cut short, extended; the one
\* computed with another secret; none
AllSignatures(body) ==
    LET good == GoodSig(body)
    IN  {good, [i \in 1..Len(good) |-> UpperDigit(good[i])],
         SubSeq(good, 1, Len(good) - 1), good \o <<"0">>,
         HexEncode(Hmac(OtherSecret, body)), <<>>}
        \cup {FlipAt(good, i) : i \in 1..Len(good)}

StatusBadRequest == 400

\* the goroutine of a delivery ends: its locals are gone, what the handler
\* returned and the status written stay on record
HookReturn(h, err, status) ==
    /\ hpc' = [hpc EXCEPT ![h] = "done"]
    /\ hret' = [hret EXCEPT ![h] = [err |-> err, status |-> status]]
    /\ hreq' = [hreq EXCEPT ![h] = NoRequest]
    /\ hmsg' = [hmsg EXCEPT ![h] = NoMessage]
    /\ hts' = [hts EXCEPT ![h] = 0]

\* a delivery arrives: io.ReadAll(r.Body) and the signature header
Deliver(h, body, sig, readOk) ==
    /\ hpc[h] \in {"idle", "done"}
    /\ delivered < MaxDeliveries
    /\ delivered' = delivered + 1
    /\ IF readOk
         THEN /\ hpc' = [hpc EXCEPT ![h] = "verify"]
              /\ hret' = [hret EXCEPT ![h] = HookPending]
              /\ hreq' = [hreq EXCEPT ![h] =
                            [body |-> body, sig |-> sig, readOk |-> readOk,
                             verified |-> FALSE]]
              /\ UNCHANGED <<hmsg, hts>>
         ELSE HookReturn(h, ErrNotCalled, StatusBadRequest)
    /\ UNCHANGED <<queueVars, pollVars, fate, recorded>>

\* verified, err := verifyRequest(...); if err != nil { ... if !verified
\* { ... return } }: the handler is skipped only inside the err != nil
\* branch, where the status written first is StatusBadRequest
Verify(h) ==
    /\ hpc[h] = "verify"
    /\ LET v == verifyRequest(webhookSecret, hreq[h].sig, hreq[h].body)
       IN  IF v.err # ErrNone /\ ~v.verified
             THEN HookReturn(h, ErrNotCalled, StatusBadRequest)
             ELSE /\ hpc' = [hpc EXCEPT ![h] = "handler"]
                  /\ hreq' = [hreq EXCEPT ![h].verified = v.verified]
                  /\ UNCHANGED <<hret, hmsg, hts>>
    /\ UNCHANGED <<queueVars, pollVars, histVars>>

\* mutant: WebhookMentionsHandler without the test of the envelope's type
BeforeLockAnyType(body, name) ==
    LET req == Unmarshal(body)
    IN  IF req.err # ErrNone
          THEN [err |-> ErrUnmarshal, insert |-> FALSE]
        ELSE IF ~req.HasData
          THEN [err |-> ErrPanic, insert |-> FALSE]
        ELSE LET r == parseCastData(req.Data, name)
                 t == ParseTime(req.Data.Timestamp)
             IN  IF r.err # ErrNone
                   THEN [err |-> ErrParseCast, insert |-> FALSE]
                 ELSE IF t.err # ErrNone
                   THEN [err |-> ErrParseTime, insert |-> FALSE]
                 ELSE [err |-> ErrNone, insert |-> TRUE,
                       message |-> r.message, timestamp |-> t.unix]

\* what WebhookMentionsHandler does before it takes the lock
BeforeLock(body, name) ==
    LET req == Unmarshal(body)
    IN  IF req.err # ErrNone
          THEN [err |-> ErrUnmarshal, insert |-> FALSE]
        ELSE IF req.Type # neynarCastCreatedType
          THEN [err |-> ErrNone, insert |-> FALSE]
        ELSE IF ~req.HasData
          THEN [err |-> ErrPanic, insert |-> FALSE]
        ELSE LET r == parseCastData(req.Data, name)
                 t == ParseTime(req.Data.Timestamp)
             IN  IF r.err # ErrNone
                   THEN [err |-> ErrParseCast, insert |-> FALSE]
                 ELSE IF t.err # ErrNone
                   THEN [err |-> ErrParseTime, insert |-> FALSE]
                 ELSE [err |-> ErrNone, insert |-> TRUE,
                       message |-> r.message, timestamp |-> t.unix]

\* the status WebhookHttpHandler writes for what the handler returned; a
\* panic writes none
StatusFor(err) ==
    IF err = ErrNone THEN StatusOK
    ELSE IF err = ErrPanic THEN 0
    ELSE StatusInternalServerError

\* handler(data): WebhookMentionsHandler up to n.newCastsMtx.Lock()
Handle(h) ==
    /\ hpc[h] = "handler"
    /\ LET b == BeforeLock(hreq[h].body, username["c1"])
       IN  IF b.insert
             THEN /\ hmsg' = [hmsg EXCEPT ![h] = b.message]
                  /\ hts' = [hts EXCEPT ![h] = b.timestamp]
                  /\ hpc' = [hpc EXCEPT ![h] = "lock"]
                  /\ UNCHANGED <<hret, hreq>>
             ELSE HookReturn(h, b.err, StatusFor(b.err))
    /\ UNCHANGED <<queueVars, pollVars, histVars>>

\* mutant: Lock does not wait
MutexNeverHeld(m) == TRUE

\* sync.Mutex: Lock returns when the mutex is not held
MutexFree(m) == m = Unlocked

\* n.newCastsMtx.Lock() in WebhookMentionsHandler
HookLock(h) ==
    /\ hpc[h] = "lock"
    /\ MutexFree(newCastsMtx)
    /\ newCastsMtx' = <<"hook", h>>
    /\ hpc' = [hpc EXCEPT ![h] = "insert"]
    /\ UNCHANGED <<username, newCasts, pollVars, histVars, hreq, hmsg, hts, hret>>

\* mutant: an insert that leaves an entry already stored under the key
MapPutKeepsFirst(m, k, v) ==
    [t \in DOMAIN m \cup {k} |-> IF t \in DOMAIN m THEN m[t] ELSE v]

\* m[k] = v
MapPut(m, k, v) == [t \in DOMAIN m \cup {k} |-> IF t = k THEN v ELSE m[t]]

\* the hashes of the messages of a map, of a slice
MapHashes(m) == {m[t].Hash : t \in DOMAIN m}
SliceHashes(sl) == {sl[i].Hash : i \in 1..Len(sl)}

\* the pollers inside LastMentions
Running == {d \in Pollers : dpc[d] \in {"lock", "range", "clear", "unlock"}}

\* n.newCasts[notificationTimestamp] = message
Insert(h) ==
    /\ hpc[h] = "insert"
    /\ newCasts' = MapPut(newCasts, hts[h], hmsg[h])
    /\ hpc' = [hpc EXCEPT ![h] = "unlock"]
    /\ fate' = [e \in Hashes |->
                  IF e = hmsg[h].Hash THEN "queued"
                  ELSE IF hts[h] \in DOMAIN newCasts /\ e = newCasts[hts[h]].Hash
                         THEN "overwritten"
                  ELSE fate[e]]
    /\ recorded' = [d \in Pollers |->
                      IF d \in Running THEN recorded[d] \cup {hmsg[h].Hash}
                                       ELSE recorded[d]]
    /\ UNCHANGED <<username, newCastsMtx, pollVars, delivered, hreq, hmsg, hts, hret>>

\* n.newCastsMtx.Unlock(); return nil; and the "ok" WebhookHttpHandler writes
HookUnlock(h) ==
    /\ hpc[h] = "unlock"
    /\ newCastsMtx' = Unlocked
    /\ HookReturn(h, ErrNone, StatusFor(ErrNone))
    /\ UNCHANGED <<username, newCasts, pollVars, histVars>>

(***************************************************************************)
(* LastMentions                                                            *)
(***************************************************************************)
\* LastMentions(ctx, timestamp) up to n.newCastsMtx.Lock()
Poll(d, timestamp) ==
    /\ dpc[d] \in {"idle", "done"}
    /\ dts' = [dts EXCEPT ![d] = timestamp]
    /\ recorded' = [recorded EXCEPT ![d] = {}]
    /\ IF fid["c1"] = NoFid
         THEN /\ dpc' = [dpc EXCEPT ![d] = "done"]
              /\ dret' = [dret EXCEPT ![d] =
                            [messages |-> <<>>, lastTimestamp |-> 0, err |-> ErrUserNotSet]]
              /\ UNCHANGED <<messages, lastTimestamp>>
         ELSE /\ dpc' = [dpc EXCEPT ![d] = "lock"]
              /\ dret' = [dret EXCEPT ![d] = PollPending]
              /\ messages' = [messages EXCEPT ![d] = <<>>]
              /\ lastTimestamp' = [lastTimestamp EXCEPT ![d] = timestamp]
    /\ UNCHANGED <<queueVars, hookVars, delivered, fate>>

\* n.newCastsMtx.Lock() in LastMentions
DrainLock(d) ==
    /\ dpc[d] = "lock"
    /\ MutexFree(newCastsMtx)
    /\ newCastsMtx' = <<"poll", d>>
    /\ dpc' = [dpc EXCEPT ![d] = "range"]
    /\ UNCHANGED <<username, newCasts, hookVars, histVars, dts, messages,
                   lastTimestamp, dret>>

\* mutant: the watermark itself qualifies
QualifiesInclusive(ts, timestamp) == ts >= timestamp

\* if ts > timestamp
Qualifies(ts, timestamp) == ts > timestamp

\* for ts, msg := range n.newCasts { ... }, the keys visited in this order
RECURSIVE RangeLoop(_, _, _, _, _)
RangeLoop(m, order, timestamp, msgs, last) ==
    IF order = <<>>
        THEN [messages |-> msgs, lastTimestamp |-> last]
        ELSE LET ts == Head(order)
             IN  IF Qualifies(ts, timestamp)
                   THEN RangeLoop(m, Tail(order), timestamp, Append(msgs, m[ts]), ts)
                   ELSE RangeLoop(m, Tail(order), timestamp, msgs, last)

\* the orders in which a range over a map with these keys may visit them
Orders(keys) ==
    {o \in [1..Cardinality(keys) -> keys] :
        \A i, j \in 1..Cardinality(keys) : o[i] = o[j] => i = j}

\* the range loop of LastMentions
Collect(d, order) ==
    /\ dpc[d] = "range"
    /\ LET r == RangeLoop(newCasts, order, dts[d], messages[d], lastTimestamp[d])
       IN  /\ messages' = [messages EXCEPT ![d] = r.messages]
           /\ lastTimestamp' = [lastTimestamp EXCEPT ![d] = r.lastTimestamp]
    /\ dpc' = [dpc EXCEPT ![d] = "clear"]
    /\ fate' = [e \in Hashes |->
                  IF \E t \in DOMAIN newCasts : newCasts[t].Hash = e /\ Qualifies(t, dts[d])
                    THEN IF fate[e] = "returned" THEN "duplicated" ELSE "returned"
                  ELSE IF e \in MapHashes(newCasts) /\ fate[e] = "queued"
                    THEN "discarded"
                  ELSE fate[e]]
    /\ UNCHANGED <<queueVars, hookVars, delivered, recorded, dts, dret>>

\* mutant: a drain that deletes the entries it returns and keeps the rest
ClearReturnedOnly(d) ==
    /\ dpc[d] = "clear"
    /\ newCasts' = [t \in {k \in DOMAIN newCasts : k <= dts[d]} |-> newCasts[t]]
    /\ dpc' = [dpc EXCEPT ![d] = "unlock"]
    /\ UNCHANGED <<username, newCastsMtx, hookVars, histVars, dts,
                   messages, lastTimestamp, dret>>

\* n.newCasts = make(map[uint64]*hub.APIMessage)
Clear(d) ==
    /\ dpc[d] = "clear"
    /\ newCasts' = EmptyMap
    /\ dpc' = [dpc EXCEPT ![d] = "unlock"]
    /\ fate' = [e \in Hashes |->
                  IF e \in MapHashes(newCasts) /\ fate[e] = "queued"
                    THEN "lost" ELSE fate[e]]
    /\ UNCHANGED <<username, newCastsMtx, hookVars, delivered, recorded, dts,
                   messages, lastTimestamp, dret>>

\* n.newCastsMtx.Unlock(); return messages, lastTimestamp, nil
DrainUnlock(d) ==
    /\ dpc[d] = "unlock"
    /\ newCastsMtx' = Unlocked
    /\ dpc' = [dpc EXCEPT ![d] = "done"]
    /\ dret' = [dret EXCEPT ![d] =
                  [messages |-> messages[d], lastTimestamp |-> lastTimestamp[d],
                   err |-> ErrNone]]
    /\ messages' = [messages EXCEPT ![d] = <<>>]
    /\ lastTimestamp' = [lastTimestamp EXCEPT ![d] = 0]
    /\ recorded' = [recorded EXCEPT ![d] = {}]
    /\ UNCHANGED <<username, newCasts, hookVars, delivered, fate, dts>>

(***************************************************************************)
(* SpecQueue: NumHooks deliveries of cast.created webhooks, correctly      *)
(* signed, run concurrently with NumPollers calls of LastMentions.         *)
(***************************************************************************)
QueueBodies(hash) == {<<1, 1, 1, sec, 0, hash>> : sec \in 1..MaxTs}

InitWebhook ==
    /\ reqSemaphore = NewNeynarAPI
    /\ InitCallers
    /\ username = [c \in Clients |-> Bot]
    /\ newCasts = EmptyMap
    /\ newCastsMtx = Unlocked
    /\ InitNoParse
    /\ InitHooks
    /\ InitPollers

InitQueueSpec ==
    /\ fid = [c \in Clients |-> BotFid]
    /\ InitWebhook

HookStep(h) ==
    \/ Verify(h)
    \/ Handle(h)
    \/ HookLock(h)
    \/ Insert(h)
    \/ HookUnlock(h)

PollStep(d) ==
    \/ DrainLock(d)
    \/ \E order \in Orders(DOMAIN newCasts) : Collect(d, order)
    \/ Clear(d)
    \/ DrainUnlock(d)

NextQueue ==
    /\ UNCHANGED <<reqVars, chanVars, userVars, parseVars>>
    /\ \/ \E h \in Hooks :
            \/ \E body \in QueueBodies(delivered + 1) :
                  Deliver(h, body, GoodSig(body), TRUE)
            \/ HookStep(h)
       \/ \E d \in Pollers :
            \/ \E timestamp \in 0..MaxTs : Poll(d, timestamp)
            \/ PollStep(d)

SpecQueue == InitQueueSpec /\ [][NextQueue]_vars

(***************************************************************************)
(* SpecHook: one delivery at a time, of every body and every signature,    *)
(* and one poller; the user of the client may be unset.                    *)
(***************************************************************************)
CastBodies(hash) ==
    {<<1, 1, tx, sec, ms, hash>> : tx \in 1..2, sec \in 1..MaxTs, ms \in {0, 500}}

\* not JSON; another event type, with and without data; no data; another
\* object; a timestamp in another layout
OtherBodies(hash) ==
    {<<>>, <<2, 1, 1, 1, 0, hash>>, <<2, NoDataByte, 1, 1, 0, hash>>,
     <<1, NoDataByte, 1, 1, 0, hash>>, <<1, 2, 1, 1, 0, hash>>,
     <<1, 1, 1, 1, BadLayoutByte, hash>>}

HookBodies(hash) == CastBodies(hash) \cup OtherBodies(hash)

InitHookSpec ==
    /\ fid \in {[c \in Clients |-> IF c = "c1" THEN f ELSE BotFid] : f \in {NoFid, BotFid}}
    /\ InitWebhook

NextHook ==
    /\ UNCHANGED <<reqVars, chanVars, userVars, parseVars>>
    /\ \/ \E body \in HookBodies(delivered + 1) :
            \E sig \in Signatures(body) : Deliver(1, body, sig, TRUE)
       \/ Deliver(1, <<>>, <<>>, FALSE)
       \/ HookStep(1)
       \/ \E timestamp \in 0..MaxTs : Poll(1, timestamp)
       \/ PollStep(1)

SpecHook == InitHookSpec /\ [][NextHook]_vars

(***************************************************************************)
(* SpecVerify: deliveries with every signature header of AllSignatures;    *)
(* verifyRequest is applied to each.                                       *)
(***************************************************************************)
VerifyBodies(hash) == QueueBodies(hash) \cup {<<>>, <<2, 1, 1, 1, 0, hash>>}

NextVerify ==
    /\ UNCHANGED <<reqVars, chanVars, userVars, parseVars>>
    /\ \E h \in Hooks :
         \/ \E body \in VerifyBodies(delivered + 1) :
               \E sig \in AllSignatures(body) : Deliver(h, body, sig, TRUE)
         \/ HookStep(h)

SpecVerify == InitQueueSpec /\ [][NextVerify]_vars

(***************************************************************************)
(* SpecParse: parseCastData applied once to every cast text of at most     *)
(* MaxTextLen characters of a small alphabet, and to the examples.         *)
(***************************************************************************)
Alphabet == {"@", "b", " ", "x"}
Texts ==
    UNION {[1..n -> Alphabet] : n \in 0..MaxTextLen} \cup {AtBotHello, RandomText}
Usernames == {<<>>, <<"b">>, Bot}

ParseInputs ==
    [Object : {neynarCastType, "user"}, Text : Texts, Author : {BotFid + 1},
     Hash : {"0xa"}, ParentAuthor : {NoParent}, ParentHash : {""}, Embeds : {<<>>}]

InitParse ==
    /\ fid = [c \in Clients |-> BotFid]
    /\ reqSemaphore = NewNeynarAPI
    /\ InitCallers
    /\ username \in [Clients -> Usernames]
    /\ newCasts = EmptyMap
    /\ newCastsMtx = Unlocked
    /\ castData \in ParseInputs
    /\ parsed = NotParsed
    /\ InitHooks
    /\ InitPollers

\* message, err := n.parseCastData(data) on client c1
ParseCast ==
    /\ parsed = NotParsed
    /\ parsed' = parseCastData(castData, username["c1"])
    /\ UNCHANGED <<castData, reqVars, queueVars, hookVars, pollVars, histVars, chanVars,
                   userVars>>

NextParse == ParseCast

SpecParse == InitParse /\ [][NextParse]_vars

(***************************************************************************)
(* SetFarcasterUser and FID.                                               *)
(***************************************************************************)
\* return n.fid
FID(c) == fid[c]

\* n.fid = fid; n.signerUUID = signer
SetFarcasterUser(g, c, f, signer) ==
    /\ upc[g] \in {"idle", "done"}
    /\ pc[g] \in {"idle", "done"}
    /\ fid' = [fid EXCEPT ![c] = f]
    /\ signerUUID' = [signerUUID EXCEPT ![c] = signer]
    /\ uarg' = [uarg EXCEPT ![g] = [client |-> c, fid |-> f, signer |-> signer]]
    /\ sret' = [sret EXCEPT ![g] = "pending"]
    /\ upc' = [upc EXCEPT ![g] = "lookup"]
    /\ UNCHANGED <<reqSemaphore, pc, method, client, url, timeout, callerDone, attempt,
                   expired, res, delay, ret, calls, n429, slept>>
    /\ UNCHANGED <<queueVars, parseVars, hookVars, pollVars, histVars, chanVars>>

\* userdata, err := n.UserDataByFID(ctx, n.fid), up to its call of request
UserDataByFID(g) ==
    /\ upc[g] = "lookup"
    /\ Call(g, "UserDataByFID", uarg[g].client, FALSE, "ok")
    /\ upc' = [upc EXCEPT ![g] = "request"]
    /\ UNCHANGED <<signerUUID, uarg, sret>>
    /\ UNCHANGED <<queueVars, parseVars, hookVars, pollVars, histVars, chanVars>>

\* mutant: a failed lookup puts the client back as a fresh one
SetUserReturnRollback(g) ==
    /\ upc[g] = "request"
    /\ pc[g] = "done"
    /\ IF ret[g].err # ErrNone \/ ret[g].body # "{users: [bot]}"
         THEN /\ sret' = [sret EXCEPT ![g] = "error getting bot username"]
              /\ fid' = [fid EXCEPT ![uarg[g].client] = NoFid]
              /\ signerUUID' = [signerUUID EXCEPT ![uarg[g].client] = ""]
              /\ UNCHANGED username
         ELSE /\ username' = [username EXCEPT ![uarg[g].client] = Bot]
              /\ sret' = [sret EXCEPT ![g] = ErrNone]
              /\ UNCHANGED <<fid, signerUUID>>
    /\ upc' = [upc EXCEPT ![g] = "done"]
    /\ UNCHANGED <<uarg, newCasts, newCastsMtx>>
    /\ UNCHANGED <<reqSemaphore, pc, method, client, url, timeout, callerDone, attempt,
                   expired, res, delay, ret, calls, n429, slept>>
    /\ UNCHANGED <<parseVars, hookVars, pollVars, histVars, chanVars>>

\* request has returned: the rest of UserDataByFID (an error of request, a
\* body that is not JSON and an answer with no users are errors), then the
\* rest of SetFarcasterUser
SetUserReturn(g) ==
    /\ upc[g] = "request"
    /\ pc[g] = "done"
    /\ LET userdata ==
              IF ret[g].err # ErrNone
                THEN [Username |-> <<>>, err |-> "error creating request"]
              ELSE IF ret[g].body = "<html>"
                THEN [Username |-> <<>>, err |-> "error unmarshalling response body"]
              ELSE IF ret[g].body = "{users: []}"
                THEN [Username |-> <<>>, err |-> "no data found"]
              ELSE [Username |-> Bot, err |-> ErrNone]
       IN  IF userdata.err # ErrNone
             THEN /\ sret' = [sret EXCEPT ![g] = "error getting bot username"]
                  /\ UNCHANGED username
             ELSE /\ username' = [username EXCEPT ![uarg[g].client] = userdata.Username]
                  /\ sret' = [sret EXCEPT ![g] = ErrNone]
    /\ upc' = [upc EXCEPT ![g] = "done"]
    /\ UNCHANGED <<signerUUID, uarg, newCasts, newCastsMtx>>
    /\ UNCHANGED <<reqVars, parseVars, hookVars, pollVars, histVars, chanVars>>

(***************************************************************************)
(* SpecUser: a fresh client, on which no user is set.  One goroutine calls *)
(* SetFarcasterUser, another Publish or Reply, one webhook delivery arrives *)
(* and a poller calls LastMentions.  The server answers a request with a   *)
(* user, with no user, or not at all.                                      *)
(***************************************************************************)
NextUser ==
    \/ \E f \in {BotFid, BotFid + 1} : SetFarcasterUser(1, "c1", f, "uuid")
    \/ UserDataByFID(1)
    \/ SetUserReturn(1)
    \/ /\ UNCHANGED <<queueVars, parseVars, hookVars, pollVars, histVars, chanVars, userVars>>
       /\ \/ \E m \in {"Publish", "Reply"}, tooLong \in BOOLEAN :
                pc[2] = "idle" /\ Call(2, m, "c1", tooLong, "ok")
          \/ \E g \in {1, 2} :
                \/ LoopHead(g)
                \/ Acquire(g)
                \/ \E ans \in [status : {StatusOK}, body : {"{users: [bot]}", "{users: []}"},
                                bodyOk : {TRUE}]
                               \cup {[status |-> TransportError, body |-> NoBody,
                                      bodyOk |-> FALSE]} :
                      DoReturn(g, ans)
                \/ Release(g)
                \/ Classify(g, 0)
                \/ ReadBody(g)
    \/ /\ UNCHANGED <<reqVars, chanVars, userVars, parseVars>>
       /\ \/ \E body \in QueueBodies(1) : delivered = 0 /\ Deliver(1, body, GoodSig(body), TRUE)
          \/ HookStep(1)
          \/ \E timestamp \in 0..MaxTs : Poll(1, timestamp)
          \/ PollStep(1)

InitUser ==
    /\ fid = [c \in Clients |-> NoFid]
    /\ reqSemaphore = NewNeynarAPI
    /\ InitCallers
    /\ InitQueue
    /\ InitNoParse
    /\ InitHooks
    /\ InitPollers

SpecUser == InitUser /\ [][NextUser]_vars

\* the text with the mention prefix stripped
Stripped(text, name) == TrimSpace(TrimPrefix(text, mentionNeedle(name)))

\* C6: parseCastData marks a cast as a mention exactly when its text begins
\* with "@" + username; then Content is the text with that prefix stripped,
\* otherwise Content is the text unchanged.
C6_MentionIffPrefix ==
    (parsed # NotParsed /\ parsed.err = ErrNone) =>
        LET begins == HasPrefix(castData.Text, mentionNeedle(username["c1"]))
        IN  /\ parsed.message.IsMention = begins
            /\ parsed.message.Content =
                  IF begins THEN Stripped(castData.Text, username["c1"])
                            ELSE castData.Text

(***************************************************************************)
(* Properties of the webhook and of the mention queue.                     *)
(***************************************************************************)
\* the deliveries that are inside the attached handler
InHandler == {h \in Hooks : hpc[h] \in {"handler", "lock", "insert", "unlock"}}

\* C2: a delivery whose X-Neynar-Signature header differs from the hex
\* HMAC of its body under the secret never has the attached handler invoked
\* on it, so it never reaches the queue.
C2_BadSignatureNotHandled ==
    \A h \in InHandler : hreq[h].sig = GoodSig(hreq[h].body)

SetMax(S) == CHOOSE x \in S : \A y \in S : y <= x

\* the stored timestamps above the watermark of poller d
Newer(d) == {t \in DOMAIN newCasts : t > dts[d]}

\* C3: whatever the order in which the map is visited, LastMentions called
\* with watermark w computes as new watermark the greatest stored timestamp
\* above w, and w itself when there is none.
C3_NewWatermarkIsMax ==
    \A d \in Pollers :
        dpc[d] = "clear" => lastTimestamp[d] = SetMax(Newer(d) \cup {dts[d]})

\* C4: LastMentions called with watermark w on a client whose user is set
\* collects exactly the stored events with timestamp above w, each once, and
\* none with timestamp at most w.
C4_DrainReturnsExactlyNewer ==
    \A d \in Pollers :
        dpc[d] = "clear" =>
            /\ Len(messages[d]) = Cardinality(Newer(d))
            /\ {messages[d][i] : i \in 1..Len(messages[d])} =
                   {newCasts[t] : t \in Newer(d)}

\* a drain over a map that holds an event above the watermark and one not
\* above it
C4_Witness ==
    \E d \in Pollers :
        /\ dpc[d] = "clear"
        /\ Newer(d) # {}
        /\ Newer(d) # DOMAIN newCasts
        /\ Len(messages[d]) = 1

\* poller d returns from LastMentions in this step
Completes(d) == dpc[d] = "unlock" /\ dpc'[d] = "done"

NeverTwiceNeverLost == \A e \in Hashes : fate[e] \notin {"duplicated", "lost"}

\* C5: in every interleaving of inserts and drains, an event recorded while
\* a drain is running is in that drain's result or still in the queue when
\* the drain completes; no event is returned by two drains; no insert is
\* lost between a drain's collection and its replacement of the map.
C5_RecordedIsReturnedOrQueued ==
    /\ [][\A d \in Pollers : Completes(d) =>
            \A e \in recorded[d] :
                \/ e \in SliceHashes(dret'[d].messages)
                \/ e \in MapHashes(newCasts')]_vars
    /\ []NeverTwiceNeverLost

\* C5, amended: an event recorded while a drain is running is, when the
\* drain completes, in that drain's result, still in the queue, or gone the
\* documented way: returned by another drain, discarded by a drain whose
\* watermark is not below its timestamp, or overwritten by a later insert at
\* the same timestamp; no event is returned by two drains; no insert is lost
\* between a drain's collection and its replacement of the map.
C5_RecordedIsAccountedFor ==
    /\ [][\A d \in Pollers : Completes(d) =>
            \A e \in recorded[d] :
                \/ e \in SliceHashes(dret'[d].messages)
                \/ e \in MapHashes(newCasts')
                \/ fate'[e] \in {"returned", "discarded", "overwritten"}]_vars
    /\ []NeverTwiceNeverLost

\* a drain is about to complete with an event in its result that was
\* recorded while it ran, and an insert waits for the lock the drain holds
C5_Witness ==
    \E d \in Pollers :
        /\ dpc[d] = "unlock"
        /\ \E e \in recorded[d] : e \in SliceHashes(messages[d])
        /\ \E h \in Hooks : hpc[h] = "lock"

\* delivery h stores its message in this step
Inserts(h) == hpc[h] = "insert" /\ hpc'[h] = "unlock"

\* poller d runs its range loop in this step
Collects(d) == dpc[d] = "range" /\ dpc'[d] = "clear"

\* C13: an insert at timestamp t puts its event in bucket t in place of
\* what an earlier insert at t stored there and leaves the other buckets as
\* they were; a drain with a watermark below t then yields the later event
\* for bucket t and not the earlier one.
C13_LastWriteWins ==
    /\ [][\A h \in Hooks : Inserts(h) =>
            /\ DOMAIN newCasts' = DOMAIN newCasts \cup {hts[h]}
            /\ newCasts'[hts[h]] = hmsg[h]
            /\ \A t \in DOMAIN newCasts \ {hts[h]} : newCasts'[t] = newCasts[t]]_vars
    /\ [][\A d \in Pollers : Collects(d) =>
            \A e \in Hashes :
                fate[e] = "overwritten" => e \notin SliceHashes(messages'[d])]_vars

\* the second delivery was stored at the timestamp of the first, and a drain
\* collected the second event alone
C13_Witness ==
    \E d \in Pollers :
        /\ dpc[d] = "clear"
        /\ fate[1] = "overwritten"
        /\ SliceHashes(messages[d]) = {2}

\* poller d replaces the map in this step
Clears(d) == dpc[d] = "clear" /\ dpc'[d] = "unlock"

\* C20: a drain removes from the queue also the events it does not return:
\* an event stored with a timestamp at most the drain's watermark is not in
\* what the drain collects, is gone from the queue when the drain replaces
\* the map, and is in the result of no drain from then on.
C20_DiscardedNeverReturned ==
    /\ [][\A d \in Pollers : Collects(d) =>
            \A t \in DOMAIN newCasts :
                t <= dts[d] =>
                    /\ newCasts[t].Hash \notin SliceHashes(messages'[d])
                    /\ fate'[newCasts[t].Hash] = "discarded"]_vars
    /\ [][\A d \in Pollers : Clears(d) =>
            \A t \in DOMAIN newCasts :
                newCasts[t].Hash \notin MapHashes(newCasts')]_vars
    /\ [][\A e \in Hashes : fate[e] = "discarded" =>
            /\ fate'[e] = "discarded"
            /\ \A d \in Pollers :
                  /\ e \notin SliceHashes(messages'[d])
                  /\ e \notin SliceHashes(dret'[d].messages)]_vars

\* the first event was discarded by a drain that has returned, and a later
\* drain with watermark 0, which every stored event is above, collected
\* nothing
C20_Witness ==
    \E d1, d2 \in Pollers :
        /\ fate[1] = "discarded"
        /\ dpc[d1] = "done"
        /\ dret[d1].err = ErrNone
        /\ dret[d1].messages = <<>>
        /\ dpc[d2] = "clear"
        /\ dts[d2] = 0
        /\ messages[d2] = <<>>

\* C14: when a call of LastMentions returns without error the queue is
\* empty; a drain that finds the queue as the one before it left it, called
\* with the watermark that one returned (or any other), returns no events
\* and returns its watermark unchanged.
C14_DrainLeavesQueueEmpty ==
    /\ [][\A d \in Pollers : Completes(d) =>
            dret'[d].err = ErrNone /\ newCasts' = EmptyMap]_vars
    /\ [][\A d \in Pollers : (Collects(d) /\ newCasts = EmptyMap) =>
            messages'[d] = <<>> /\ lastTimestamp'[d] = dts[d]]_vars

\* a drain returned an event and a watermark; the next drain, called with
\* that watermark, found the queue empty
C14_Witness ==
    \E d1, d2 \in Pollers :
        /\ dpc[d1] = "done"
        /\ dret[d1].err = ErrNone
        /\ dret[d1].messages # <<>>
        /\ dpc[d2] = "clear"
        /\ dts[d2] = dret[d1].lastTimestamp
        /\ newCasts = EmptyMap
        /\ messages[d2] = <<>>

\* WebhookMentionsHandler runs on delivery h up to its lock or its return
Handles(h) == hpc[h] = "handler" /\ hpc'[h] # "handler"

\* C15: on a well-formed body whose type is not "cast.created", whatever
\* else it holds, WebhookMentionsHandler returns nil and the queue is as it
\* was.
C15_OtherTypeIsNoOp ==
    [][\A h \in Hooks :
         (/\ Handles(h)
          /\ Unmarshal(hreq[h].body).err = ErrNone
          /\ Unmarshal(hreq[h].body).Type # neynarCastCreatedType) =>
            /\ hpc'[h] = "done"
            /\ hret'[h].err = ErrNone
            /\ newCasts' = newCasts]_vars

\* the first delivery was answered "ok" and nothing was stored for it
C15_Witness ==
    /\ delivered = 1
    /\ hpc[1] = "done"
    /\ hret[1] = [err |-> ErrNone, status |-> StatusOK]
    /\ fate[1] = "none"
    /\ newCasts = EmptyMap

\* the bodies that do not parse: not JSON, or a "cast.created" envelope with
\* no data, with an object that is not a cast, or with a timestamp in
\* another layout
ParseFailure(body) ==
    LET req == Unmarshal(body)
    IN  \/ req.err # ErrNone
        \/ /\ req.Type = neynarCastCreatedType
           /\ \/ ~req.HasData
              \/ req.Data.Object # neynarCastType
              \/ ParseTime(req.Data.Timestamp).err # ErrNone

\* the errors WebhookMentionsHandler returns
HandlerErrors == {ErrUnmarshal, ErrParseCast, ErrParseTime}

\* C16: on every body WebhookMentionsHandler either stores one event and
\* returns nil, or returns nil with the queue unchanged, or returns an error
\* with the queue unchanged; every body that does not parse has the third
\* outcome; the handler never ends without returning.
C16_HandlerAlwaysReturns ==
    /\ [][\A h \in Hooks : Handles(h) =>
            /\ newCasts' = newCasts
            /\ IF ParseFailure(hreq[h].body)
                 THEN hpc'[h] = "done" /\ hret'[h].err \in HandlerErrors
                 ELSE \/ hpc'[h] = "lock"
                      \/ hpc'[h] = "done" /\ hret'[h].err = ErrNone]_vars
    /\ [][\A h \in Hooks : Inserts(h) =>
            /\ MapHashes(newCasts') \ MapHashes(newCasts) = {hmsg[h].Hash}
            /\ hret'[h].err \in {"pending", ErrNone}]_vars
    /\ [](\A h \in Hooks : hret[h].err # ErrPanic)

\* the lowercase hexadecimal encoding, character by character
LowerHex(bytes) ==
    [i \in 1..(2 * Len(bytes)) |->
        LET b == bytes[(i + 1) \div 2]
            nibble == IF i % 2 = 1 THEN b \div 16 ELSE b % 16
        IN  IF nibble < 10 THEN ToString(nibble)
            ELSE <<"a", "b", "c", "d", "e", "f">>[nibble - 9]]

\* C17: verifyRequest(secret, sig, body) is true exactly when sig is the
\* lowercase hexadecimal encoding of the MAC of body under secret: true for
\* that signature, false for every other one, whichever character differs.
C17_VerifiedIffSignatureMatches ==
    \A h \in InHandler :
        hreq[h].verified = (hreq[h].sig = LowerHex(Hmac(webhookSecret, hreq[h].body)))

\* verifyRequest accepted the computed signature of one delivery and rejected
\* that of another, which differs from the computed one in its last character
C17_Witness ==
    \E h1, h2 \in InHandler :
        /\ hreq[h1].verified
        /\ hreq[h1].sig = GoodSig(hreq[h1].body)
        /\ ~hreq[h2].verified
        /\ hreq[h2].sig = FlipAt(GoodSig(hreq[h2].body), Len(GoodSig(hreq[h2].body)))

(***************************************************************************)
(* Properties of request.                                                  *)
(***************************************************************************)
\* the callers of client c that are inside http.DefaultClient.Do
InFlight(c) == {g \in Callers : pc[g] = "do" /\ client[g] = c}

\* C1: on one client, in every interleaving of the callers, at most
\* maxConcurrentRequests callers are inside the network call at a time.
C1_AtMostTwoInFlight ==
    \A c \in Clients : Cardinality(InFlight(c)) <= maxConcurrentRequests

\* two callers are inside Do and a third one waits for a permit
C1_Witness ==
    /\ Cardinality(InFlight("c1")) = maxConcurrentRequests
    /\ \E g \in Callers : pc[g] = "acquire" /\ client[g] = "c1"

\* the callers of client c between the send on the channel and the receive
\* from it: inside Do, or with Do just returned
Attempting(c) == {g \in Callers : pc[g] \in {"do", "release"} /\ client[g] = c}

\* C11: a request holds a permit exactly while its network call runs: the
\* permits held on a client are as many as its callers between the send that
\* precedes Do and the receive that follows it, whatever Do returned, so a
\* caller that classifies the outcome, sleeps in backoff, reads the body or
\* has returned holds none.
C11_PermitHeldOnlyDuringCall ==
    \A c \in Clients : reqSemaphore[c] = Cardinality(Attempting(c))

\* a caller sleeps in backoff while both permits are held by the callers
\* inside Do
C11_Witness ==
    /\ \E g \in Callers : pc[g] = "sleep"
    /\ reqSemaphore["c1"] = maxConcurrentRequests
    /\ Cardinality(InFlight("c1")) = maxConcurrentRequests

\* C21: the deadline of an attempt runs while the request waits for a
\* permit, and neither it nor the caller's cancellation ends the wait: the
\* wait ends only by admission; a request whose ctx was done while it waited
\* is admitted later, Do then returns an error and no answer of the server,
\* and request returns the transport error without a further attempt.
C21_WaitOutlastsDeadline ==
    /\ [][\A g \in Callers :
            (pc[g] = "acquire" /\ pc'[g] # "acquire") =>
                /\ pc'[g] = "do"
                /\ reqSemaphore'[client[g]] = reqSemaphore[client[g]] + 1]_vars
    /\ [][\A g \in Callers :
            (pc[g] = "do" /\ CtxDone(g) /\ pc'[g] # "do") =>
                res'[g].status = TransportError]_vars
    /\ [](\A g \in Callers :
            res[g].status = TransportError =>
                /\ pc[g] \in {"release", "classify", "done"}
                /\ pc[g] = "done" => ret[g].err = ErrTransport)
    /\ \A g \in Callers :
          (pc[g] = "acquire" /\ CtxDone(g)) ~>
              (pc[g] = "done" /\ ret[g].err = ErrTransport /\ calls[g] = attempt[g] + 1)

\* two requests are inside Do and the third waits for a permit with its
\* deadline passed
C21_Witness ==
    /\ Cardinality(InFlight("c1")) = maxConcurrentRequests
    /\ \E g \in Callers :
          /\ pc[g] = "acquire"
          /\ expired[g]
          /\ ~callerDone[g]
          /\ attempt[g] = 0

\* caller g enters Publish or Reply in this step
CallsPublishOrReply(g) ==
    /\ pc[g] \in {"idle", "done"}
    /\ method'[g] \in {"Publish", "Reply"}
    /\ <<pc'[g], ret'[g], method'[g]>> # <<pc[g], ret[g], method[g]>>

\* poller d enters LastMentions in this step
CallsLastMentions(d) ==
    /\ dpc[d] \in {"idle", "done"}
    /\ <<dpc'[d], dts'[d], dret'[d]>> # <<dpc[d], dts[d], dret[d]>>

\* C22: while no user is set (fid = 0), LastMentions, Publish and Reply
\* return the "farcaster user not set" error and change nothing:
\* LastMentions leaves every queued event in the queue and does not take the
\* lock, Publish and Reply make no request and take no permit.
C22_NoUserNoEffect ==
    /\ [][\A d \in Pollers : (CallsLastMentions(d) /\ FID("c1") = NoFid) =>
            /\ dpc'[d] = "done"
            /\ dret'[d].err = ErrUserNotSet
            /\ dret'[d].messages = <<>>
            /\ newCasts' = newCasts
            /\ newCastsMtx' = newCastsMtx]_vars
    /\ [][\A g \in Callers : (CallsPublishOrReply(g) /\ FID(client'[g]) = NoFid) =>
            /\ pc'[g] = "done"
            /\ ret'[g].err = ErrUserNotSet
            /\ calls'[g] = 0
            /\ reqSemaphore' = reqSemaphore]_vars
    /\ [](\A g \in Callers : ret[g].err = ErrUserNotSet => calls[g] = 0 /\ pc[g] = "done")

\* no user is set, an event is queued, and LastMentions and Reply have both
\* returned "farcaster user not set"
C22_Witness ==
    /\ FID("c1") = NoFid
    /\ newCasts # EmptyMap
    /\ dpc[1] = "done"
    /\ dret[1].err = ErrUserNotSet
    /\ pc[2] = "done"
    /\ method[2] = "Reply"
    /\ ret[2].err = ErrUserNotSet
    /\ reqSemaphore["c1"] = 0

\* caller g returns from SetFarcasterUser with an error in this step
SetUserFails(g) == upc[g] = "request" /\ upc'[g] = "done" /\ sret'[g] # ErrNone

\* C23: SetFarcasterUser stores fid and signer before the lookup of the
\* username; when the lookup fails it returns an error and the client keeps
\* the new fid and signer, FID returns the new fid, the fid guards of
\* LastMentions, Publish and Reply pass, and the username is the one the
\* client had before the call: it changes only when a lookup succeeds.
C23_FailedSetKeepsNewFid ==
    /\ [](\A g \in Callers : upc[g] \in {"lookup", "request"} =>
            /\ FID(uarg[g].client) = uarg[g].fid
            /\ signerUUID[uarg[g].client] = uarg[g].signer)
    /\ [][\A g \in Callers : SetUserFails(g) =>
            /\ FID(uarg[g].client)' = uarg[g].fid
            /\ signerUUID'[uarg[g].client] = uarg[g].signer
            /\ username' = username]_vars
    /\ [][username' # username =>
            \E g \in Callers : upc[g] = "request" /\ sret'[g] = ErrNone]_vars
    /\ [][\A d \in Pollers : (CallsLastMentions(d) /\ FID("c1") # NoFid) =>
            dpc'[d] = "lock"]_vars
    /\ [][\A g \in Callers : (CallsPublishOrReply(g) /\ FID(client'[g]) # NoFid) =>
            ret'[g].err # ErrUserNotSet]_vars

\* SetFarcasterUser has failed on a fresh client: the fid is set, the
\* username is empty, LastMentions is past its guard and holds the lock and
\* Publish is past its guard, inside request
C23_Witness ==
    /\ upc[1] = "done"
    /\ sret[1] # ErrNone
    /\ FID("c1") = BotFid
    /\ signerUUID["c1"] = "uuid"
    /\ username["c1"] = <<>>
    /\ dpc[1] = "range"
    /\ method[2] = "Publish"
    /\ pc[2] = "acquire"

\* C12: over the whole process, whichever clients the callers use, at most
\* maxConcurrentRequests callers are inside the network call at a time.
C12_AtMostTwoSystemWide ==
    Cardinality(UNION {InFlight(c) : c \in Clients}) <= maxConcurrentRequests

C19_TrueOnlyWithChannelData ==
    \A g \in Callers :
        cpc[g] = "done" =>
            /\ exists[g].ok => channel[g].data = ChannelData
            /\ channel[g].data = NilChannel =>
                   (~exists[g].ok \/ exists[g].err # ErrNone)

\* C7: for every k < maxRetries, a call whose first k attempts were answered
\* 429 goes on to attempt k+1, and when that attempt is answered 200 (with a
\* body that can be read) the call eventually returns that body and no
\* error, having made exactly k+1 attempts.
C7_RetryUntilOK ==
    \A k \in 0..(maxRetries - 1) :
        /\ (pc[1] = "loop" /\ n429[1] = k /\ url[1] = "ok")
              ~> (pc[1] = "do" /\ calls[1] = k + 1 /\ n429[1] = k)
        /\ (pc[1] = "release" /\ n429[1] = k
                /\ res[1].status = StatusOK /\ res[1].bodyOk)
              ~> (/\ pc[1] = "done"
                  /\ ret[1] = Returned(ErrNone, res[1].body)
                  /\ calls[1] = k + 1)

\* a call returned the body of the 200 that followed maxRetries - 1 answers 429
C7_Witness ==
    /\ pc[1] = "done"
    /\ n429[1] = maxRetries - 1
    /\ calls[1] = maxRetries
    /\ ret[1] = Returned(ErrNone, "b2")

\* C8: a call never makes more than maxRetries attempts; a call that returned
\* after every attempt was answered 429 made exactly maxRetries attempts and
\* returned the "exceeded retry limit" error; that error is returned in no
\* other case, and a call ended by one failed attempt returns another error.
C8_RetryLimit ==
    \A g \in Callers :
        /\ calls[g] <= maxRetries
        /\ (pc[g] = "done" /\ calls[g] > 0 /\ n429[g] = calls[g])
              => (calls[g] = maxRetries /\ ret[g] = Returned(ErrRetryLimit, NoBody))
        /\ (pc[g] = "done" /\ ret[g].err = ErrRetryLimit)
              => (n429[g] = maxRetries /\ calls[g] = maxRetries)
        /\ (pc[g] = "done" /\ calls[g] > 0
                /\ res[g].status \notin {StatusOK, StatusTooManyRequests})
              => (ret[g].err \in {ErrTransport, ErrStatus} /\ ret[g].err # ErrRetryLimit)

\* a call returned the retry limit error after maxRetries answers 429
C8_Witness ==
    /\ pc[1] = "done"
    /\ n429[1] = maxRetries
    /\ calls[1] = maxRetries
    /\ ret[1].err = ErrRetryLimit

\* C9: a further attempt of a call is started only when the previous attempt
\* was answered 429; after a transport error or a status other than 200 and
\* 429 the next step of the call is its return with an error, with no sleep
\* and no network call.
C9_OnlyThrottlingRetried ==
    [][\A g \in Callers :
          /\ (calls'[g] = calls[g] + 1 /\ calls[g] > 0)
                => res[g].status = StatusTooManyRequests
          /\ (pc[g] = "classify" /\ pc'[g] # "classify"
                  /\ res[g].status \notin {StatusOK, StatusTooManyRequests})
                => /\ pc'[g] = "done"
                   /\ ret'[g].err \in {ErrTransport, ErrStatus}
                   /\ slept'[g] = slept[g]
                   /\ calls'[g] = calls[g]]_vars

\* a call whose first attempt was answered 429 ended at its second attempt,
\* which was answered 500
C9_Witness ==
    /\ pc[1] = "done"
    /\ calls[1] = 2
    /\ slept[1] = 1
    /\ res[1].status = StatusInternalServerError
    /\ ret[1].err = ErrStatus

\* C10: with timeout 0 request sets no deadline of its own: the ctx of an
\* attempt (of Reply, which passes 0) is done only when the caller's ctx is.
C10_ZeroTimeoutSetsNoDeadline ==
    \A g \in Callers :
        (timeout[g] = 0 /\ pc[g] \in {"acquire", "do"})
            => (CtxDone(g) => callerDone[g])

====
